---- MODULE Spec2Model ----
(***************************************************************************)
(* A model of bigcache (src/src/main.py): a FastAPI service in front of a  *)
(* LevelDB store.  Every handler is a coroutine; the code between two      *)
(* awaits runs atomically on the event loop, and every awaited             *)
(* asyncio.to_thread(...) is a store call that runs later, interleaved     *)
(* with the other handlers.  Strings and byte strings are sequences of     *)
(* one-character strings; an Optional is <<>> (None) or <<x>>.             *)
(***************************************************************************)
EXTENDS Integers, Sequences, FiniteSets, TLC

\* ------------------------------------------------------------ bounds
\* Longest path tail the key normalisation is examined on.
MaxTail == 4
\* The wall clock runs from 0 to MaxTime.
MaxTime == 2
\* Number of requests served in one run.
MaxRequests == 2
\* Number of requests that can be in flight at once.
NumHandlers == 2

\* ------------------------------------------------------------ strings
Chars == {"/", "a"}
None == <<>>
Some(x) == <<x>>

\* Byte value of a character: the store orders its keys bytewise.
Ord(c) ==
  CASE c = "/" -> 47
    [] c = "a" -> 97
    [] c = "b" -> 98
    [] OTHER -> 0

SeqsUpTo(S, n) == UNION {[1..m -> S] : m \in 0..n}

\* The path tails {key:path} can capture, up to MaxTail characters.
Tails == SeqsUpTo(Chars, MaxTail)

\* The path tails the clients request on /cache and /pickle ...
ClientTails ==
  { <<"a">>, <<"/", "a", "/">>, <<"a", "/", "a">>, <<"/", "a", "/", "a">>,
    <<"a", "b">>, <<"a", "b", "/", "/">> }

\* ... and on /prefix.
ClientPrefixes ==
  { <<>>, <<"a">>, <<"a", "/">>, <<"/", "a">>, <<"a", "b">>, <<"b">> }

StartsWith(s, p) == Len(p) <= Len(s) /\ SubSeq(s, 1, Len(p)) = p

RECURSIVE LStrip(_)
LStrip(s) == IF s # <<>> /\ Head(s) = "/" THEN LStrip(Tail(s)) ELSE s

RECURSIVE RStrip(_)
RStrip(s) ==
  IF s # <<>> /\ s[Len(s)] = "/" THEN RStrip(SubSeq(s, 1, Len(s) - 1)) ELSE s

\* key.lstrip("/").rstrip("/")
NormalizeKey(tail) == RStrip(LStrip(tail))

\* Every key a put can reach: put is only ever called with a normalised tail.
Keys == {NormalizeKey(t) : t \in ClientTails}

\* Bytewise (lexicographic) order of two byte strings, as LevelDB compares.
RECURSIVE BytesLess(_, _)
BytesLess(a, b) ==
  IF b = <<>> THEN FALSE
  ELSE IF a = <<>> THEN TRUE
  ELSE IF Ord(Head(a)) # Ord(Head(b)) THEN Ord(Head(a)) < Ord(Head(b))
  ELSE BytesLess(Tail(a), Tail(b))

\* The keys of S in ascending byte order.
RECURSIVE SortKeys(_)
SortKeys(S) ==
  IF S = {} THEN <<>>
  ELSE LET m == CHOOSE x \in S : \A y \in S \ {x} : BytesLess(x, y)
       IN  <<m>> \o SortKeys(S \ {m})

\* ------------------------------------------------------------ store
\* The LevelDB contents: a function from the keys present to their bytes.
\* Faulty variant: presence decided by truthiness, so an empty value reads as absent.
DbGetTruthy(d, k) ==
  IF k \in DOMAIN d /\ d[k] # <<>> THEN [found |-> TRUE, bytes |-> d[k]]
  ELSE [found |-> FALSE, bytes |-> <<>>]

DbGet(d, k) ==
  IF k \in DOMAIN d THEN [found |-> TRUE, bytes |-> d[k]]
  ELSE [found |-> FALSE, bytes |-> <<>>]

\* Faulty variant: the put drops every other key.
DbPutAlone(d, k, v) == [x \in {k} |-> v]

DbPut(d, k, v) == [x \in (DOMAIN d) \cup {k} |-> IF x = k THEN v ELSE d[x]]

\* Faulty variant: the delete is not carried out.
DbDeleteNothing(d, k) == d

DbDelete(d, k) == [x \in (DOMAIN d) \ {k} |-> d[x]]

DbDeleteAll(d, ks) == [x \in (DOMAIN d) \ ks |-> d[x]]

\* Faulty variant: the iteration starts after the start key instead of at it.
DbIteratorAfter(d, start) == SortKeys({k \in DOMAIN d : BytesLess(start, k)})

\* db.iterator(start=prefix, include_value=False): the keys >= start, ascending.
DbIterator(d, start) == SortKeys({k \in DOMAIN d : ~BytesLess(k, start)})

\* ------------------------------------------------------------ numbers
DigitChars == <<"0", "1", "2", "3", "4", "5", "6", "7", "8", "9">>

IsDigit(c) == \E i \in 1..10 : DigitChars[i] = c

DigitVal(c) == (CHOOSE i \in 1..10 : DigitChars[i] = c) - 1

\* int(num) of a string of decimal digits.
RECURSIVE ParseInt(_)
ParseInt(s) ==
  IF s = <<>> THEN 0
  ELSE 10 * ParseInt(SubSeq(s, 1, Len(s) - 1)) + DigitVal(s[Len(s)])

\* The decimal rendering of a number n >= 0.
RECURSIVE FormatInt(_)
FormatInt(n) ==
  IF n < 10 THEN <<DigitChars[n + 1]>>
  ELSE FormatInt(n \div 10) \o <<DigitChars[(n % 10) + 1]>>

\* ------------------------------------------------------------ CacheItem
\* A CacheItem: value, expire: Optional[float], duration: Optional[str].
\* Times are whole seconds.
CacheItem(v, e, d) == [value |-> v, expire |-> e, duration |-> d]

\* Number of leading decimal digits of s.
RECURSIVE LeadingDigits(_)
LeadingDigits(s) ==
  IF s # <<>> /\ IsDigit(Head(s)) THEN 1 + LeadingDigits(Tail(s)) ELSE 0

\* Faulty variant: every unit counts as seconds.
UnitSecondsFlat(u) == 1

UnitSeconds(u) ==
  CASE u = "s" -> 1
    [] u = "m" -> 60
    [] u = "h" -> 3600
    [] u = "d" -> 86400
    [] OTHER -> 0

\* re.match(r"(\d+)([smhd])", duration): anchored at the start only.
DurationMatches(dur) ==
  LET n == LeadingDigits(dur)
  IN  n > 0 /\ Len(dur) > n /\ dur[n + 1] \in {"s", "m", "h", "d"}

\* CacheItem._parse_duration at wall-clock time t, for a duration that is
\* not None: [ok |-> FALSE] stands for the ValueError it raises.
ParseDuration(dur, t) ==
  IF DurationMatches(dur)
  THEN LET n == LeadingDigits(dur)
       IN  [ok |-> TRUE,
            expire |-> t + ParseInt(SubSeq(dur, 1, n)) * UnitSeconds(dur[n + 1])]
  ELSE [ok |-> FALSE, expire |-> 0]

\* ------------------------------------------------------------ codec
\* item.model_dump_json().encode(): the three fields in their fixed order,
\* rendered as  { 'value' , expire|n , 'duration'|n }  (n is null).
Quote(s) == <<"'">> \o s \o <<"'">>

\* Faulty variant: the expire is not written.
EncodeOptNumNull(e) == <<"n">>

EncodeOptNum(e) == IF e = None THEN <<"n">> ELSE FormatInt(e[1])

EncodeOptStr(d) == IF d = None THEN <<"n">> ELSE Quote(d[1])

EncodeItem(item) ==
  <<"{">> \o Quote(item.value) \o <<",">> \o EncodeOptNum(item.expire)
          \o <<",">> \o EncodeOptStr(item.duration) \o <<"}">>

RECURSIVE SplitOn(_, _)
SplitOn(s, c) ==
  IF \A i \in 1..Len(s) : s[i] # c THEN <<s>>
  ELSE LET i == CHOOSE j \in 1..Len(s) :
                  s[j] = c /\ \A l \in 1..(j - 1) : s[l] # c
       IN  <<SubSeq(s, 1, i - 1)>> \o SplitOn(SubSeq(s, i + 1, Len(s)), c)

IsQuoted(f) ==
  /\ Len(f) >= 2
  /\ f[1] = "'"
  /\ f[Len(f)] = "'"
  /\ \A i \in 2..(Len(f) - 1) : f[i] # "'"

Unquote(f) == SubSeq(f, 2, Len(f) - 1)

IsNumber(f) == f # <<>> /\ \A i \in 1..Len(f) : IsDigit(f[i])

\* CacheItem.model_validate_json(bytes.decode()): [ok |-> FALSE] stands for
\* the exception raised on bytes that are no CacheItem document.
DecodeItem(b) ==
  LET bad == [ok |-> FALSE, item |-> CacheItem(<<>>, None, None)]
  IN  IF Len(b) < 2 \/ b[1] # "{" \/ b[Len(b)] # "}" THEN bad
      ELSE LET f == SplitOn(SubSeq(b, 2, Len(b) - 1), ",")
           IN  IF /\ Len(f) = 3
                  /\ IsQuoted(f[1])
                  /\ (f[2] = <<"n">> \/ IsNumber(f[2]))
                  /\ (f[3] = <<"n">> \/ IsQuoted(f[3]))
               THEN [ok |-> TRUE,
                     item |-> CacheItem(
                       Unquote(f[1]),
                       IF f[2] = <<"n">> THEN None ELSE Some(ParseInt(f[2])),
                       IF f[3] = <<"n">> THEN None ELSE Some(Unquote(f[3])))]
               ELSE bad

\* ------------------------------------------------------------ state
VARIABLES
  db,         \* the LevelDB contents (on disk: they outlive a closed handle)
  handle,     \* app.state.db: "open", "closed" (a closed DB object) or "none"
  hit_stats,  \* the four counters
  now,        \* time.time()
  req,        \* per handler slot: the request in flight and its response
  nreq,       \* requests started so far
  last,       \* per key: the operation that completed last on it (history)
  probe,      \* a route and a path tail, with the key the route derives
  call,       \* the store call made last, and the thread that ran it
  decided     \* GETs on /cache and /pickle that reached hit, miss or expired

vars == <<db, handle, hit_stats, now, req, nreq, last, probe, call, decided>>

Handlers == 1..NumHandlers

\* What the clients send.
InputValues == {<<"x">>, <<"y">>}
InputExpires == {None, Some(1)}
BadDurations == {<<"x">>, <<"1">>, <<"s", "1">>, <<"1", "x">>}
InputDurations == {None, Some(<<"1", "s">>)} \cup {Some(d) : d \in BadDurations}

\* The duration literals <N><unit> examined on their own.
Units == {"s", "m", "h", "d"}
DurationCounts == {1, 10}
DurationLiterals == {FormatInt(n) \o <<u>> : n \in DurationCounts, u \in Units}
Bodies == {<<>>, <<"00", "ff">>, EncodeItem(CacheItem(<<"x">>, Some(1), None))}

\* What the store left by earlier runs holds under a key, when it holds the
\* key: an entry that expires at 1, one that never expires, or a pickle.
SeedEntry(k) ==
  CASE k = <<"a">> -> EncodeItem(CacheItem(<<"x">>, Some(1), None))
    [] k = <<"a", "/", "a">> -> EncodeItem(CacheItem(<<"x">>, None, None))
    [] OTHER -> <<"00", "ff">>

NoStats == [hit |-> 0, miss |-> 0, expire |-> 0, delete |-> 0, hit_rate |-> 0]

\* An HTTP response: the status, the detail or message, and the body fields.
Resp(status, detail) ==
  [status |-> status, detail |-> detail, key |-> <<>>, value |-> <<>>,
   expire |-> None, duration |-> None, body |-> <<>>, count |-> 0,
   stats |-> NoStats]

NoResp == Resp(0, "")

\* Faulty variant: an uncaught exception is answered as a miss.
ServerErrorAsMiss == Resp(404, "miss")

\* An exception no handler catches (AttributeError on None, RuntimeError of a
\* closed DB, ValueError, ValidationError): the server answers 500.
ServerError == Resp(500, "Internal Server Error")

NoOp == [op |-> "none", resp |-> NoResp, bytes |-> <<>>]

NoProbe == [route |-> "none", tail |-> <<>>, key |-> <<>>]

\* A call on the plyvel DB object: run by asyncio.to_thread on a worker
\* thread, or called directly in the coroutine, on the event loop's thread.
StoreCall(fn, thread) == [fn |-> fn, thread |-> thread]

\* The key each route derives from its captured path tail.
SetCacheKey(tail) == NormalizeKey(tail)

SetPickleKey(tail) == NormalizeKey(tail)

GetPickleKey(tail) == NormalizeKey(tail)

GetCacheKey(tail) == NormalizeKey(tail)

\* Faulty variant: only the leading '/' are stripped.
DeleteCacheKeyLeading(tail) == LStrip(tail)

DeleteCacheKey(tail) == NormalizeKey(tail)

\* prefix.encode(): the prefix is used as captured.
DeletePrefixKey(tail) == tail

KeyRoutes ==
  {"POST /cache", "GET /cache", "DELETE /cache", "POST /pickle", "GET /pickle"}

Routes == KeyRoutes \cup {"DELETE /prefix"}

RouteKey(route, tail) ==
  CASE route = "POST /cache" -> SetCacheKey(tail)
    [] route = "POST /pickle" -> SetPickleKey(tail)
    [] route = "GET /pickle" -> GetPickleKey(tail)
    [] route = "GET /cache" -> GetCacheKey(tail)
    [] route = "DELETE /cache" -> DeleteCacheKey(tail)
    [] route = "DELETE /prefix" -> DeletePrefixKey(tail)

\* A handler's locals when its request starts.
Started(op, pc, key) ==
  [pc |-> pc, op |-> op, key |-> key, found |-> FALSE,
   bytes |-> <<>>, item |-> CacheItem(<<>>, None, None), batch |-> <<>>,
   seen |-> {}, prev |-> NoOp, resp |-> NoResp]

Idle == Started("none", "idle", <<>>)

\* The handler returns or raises: its locals are dropped.
Finished(r, resp) ==
  [r EXCEPT !.pc = "done", !.resp = resp, !.found = FALSE, !.bytes = <<>>,
            !.item = CacheItem(<<>>, None, None), !.batch = <<>>, !.seen = {}]

CanStart(h) == req[h].pc \in {"idle", "done"} /\ nreq < MaxRequests

\* History: the operation of r completed on its key with response resp;
\* bytes is what it put, if it put.
Record(r, resp) ==
  [last EXCEPT ![r.key] =
     [op |-> r.op, resp |-> resp,
      bytes |-> IF r.pc = "put" /\ resp.status = 200 THEN r.bytes ELSE <<>>]]

\* lifespan(): the store is opened over whatever earlier runs left on disk.
Init ==
  /\ \E K \in SUBSET Keys : db = [k \in K |-> SeedEntry(k)]
  /\ handle = "open"
  /\ hit_stats = [hit |-> 0, miss |-> 0, expire |-> 0, delete |-> 0]
  /\ now = 0
  /\ req = [h \in Handlers |-> Idle]
  /\ nreq = 0
  /\ last = [k \in Keys |-> NoOp]
  /\ probe = NoProbe
  /\ call = StoreCall("open", "loop")
  /\ decided = 0

\* The wall clock advances.
Tick ==
  /\ now < MaxTime
  /\ now' = now + 1
  /\ UNCHANGED <<db, handle, hit_stats, req, nreq, last, probe, call, decided>>

\* ------------------------------------------------------------ POST /cache
\* item.parse_duration(): duration, when given, overwrites expire.
ResolveExpire(item, t) ==
  IF item.duration = None THEN [ok |-> TRUE, item |-> item]
  ELSE LET p == ParseDuration(item.duration[1], t)
       IN  [ok |-> p.ok, item |-> [item EXCEPT !.expire = Some(p.expire)]]

\* set_cache up to its await, for the request POST /cache/<tail> with body
\* {value: v, expire: e, duration: d}: resolve the duration, encode,
\* normalise the key. The ValueError of a bad duration is not caught.
SetCacheRequest(h, tail, v, e, d) ==
  /\ CanStart(h)
  /\ LET res == ResolveExpire(CacheItem(v, e, d), now)
         r   == [Started("set_cache", "put", SetCacheKey(tail))
                   EXCEPT !.item = res.item, !.bytes = EncodeItem(res.item)]
     IN  IF res.ok /\ handle # "none"
         THEN /\ req' = [req EXCEPT ![h] = r]
              /\ last' = last
         ELSE /\ req' = [req EXCEPT ![h] = Finished(r, ServerError)]
              /\ last' = Record(r, ServerError)
  /\ nreq' = nreq + 1
  /\ UNCHANGED <<db, handle, hit_stats, now, probe, call, decided>>

SetCacheStart(h) ==
  \E tail \in ClientTails, v \in InputValues, e \in InputExpires,
     d \in InputDurations : SetCacheRequest(h, tail, v, e, d)

\* The awaited db.put of set_cache, and the handler's return.
SetCachePut(h) ==
  /\ req[h].pc = "put" /\ req[h].op = "set_cache"
  /\ LET r    == req[h]
         resp == IF handle = "open"
                 THEN [Resp(200, "") EXCEPT !.key = r.key,
                         !.value = r.item.value, !.expire = r.item.expire]
                 ELSE ServerError
     IN  /\ db' = IF handle = "open" THEN DbPut(db, r.key, r.bytes) ELSE db
         /\ req' = [req EXCEPT ![h] = Finished(r, resp)]
         /\ last' = Record(r, resp)
  /\ call' = StoreCall("put", "worker")
  /\ UNCHANGED <<handle, hit_stats, now, nreq, probe, decided>>

\* ------------------------------------------------------------ POST /pickle
\* set_pickle: the raw body is put under the normalised key.
SetPickle(h) ==
  /\ CanStart(h)
  /\ \E tail \in ClientTails, body \in Bodies :
       LET r    == [Started("set_pickle", "put", SetPickleKey(tail))
                     EXCEPT !.bytes = body]
           resp == IF handle = "open"
                   THEN [Resp(200, "not set") EXCEPT !.key = r.key]
                   ELSE ServerError
       IN  /\ db' = IF handle = "open" THEN DbPut(db, r.key, body) ELSE db
           /\ req' = [req EXCEPT ![h] = Finished(r, resp)]
           /\ last' = Record(r, resp)
  /\ nreq' = nreq + 1
  /\ call' = IF handle # "none" THEN StoreCall("put", "worker") ELSE call
  /\ UNCHANGED <<handle, hit_stats, now, probe, decided>>

\* ------------------------------------------------------------ GET /cache
\* Faulty variant: an increment is lost.
BumpLost(stats, name, n) == stats

\* Faulty variant: a counter is counted down.
BumpDown(stats, name, n) == [stats EXCEPT ![name] = @ - n]

\* Faulty variant: a counter is counted twice.
BumpTwice(stats, name, n) == [stats EXCEPT ![name] = @ + 2 * n]

\* hit_stats[name] += n
Bump(stats, name, n) == [stats EXCEPT ![name] = @ + n]

\* if value_bytes:
Truthy(r) == r.found /\ r.bytes # <<>>

\* Faulty variant: an entry is still served at the very second it expires.
IsLiveInclusive(item, t) == item.expire = None \/ item.expire[1] >= t

\* item.expire is None or item.expire > time.time()
IsLive(item, t) == item.expire = None \/ item.expire[1] > t

\* get_cache up to the return of its awaited db.get.
GetCacheRead(h) ==
  /\ CanStart(h)
  /\ \E tail \in ClientTails :
       LET key == GetCacheKey(tail)
           got == DbGet(db, key)
           r   == Started("get_cache", "got", key)
       IN  IF handle = "open"
           THEN /\ req' = [req EXCEPT ![h] =
                             [r EXCEPT !.found = got.found,
                                !.bytes = got.bytes, !.prev = last[key]]]
                /\ last' = last
           ELSE /\ req' = [req EXCEPT ![h] = Finished(r, ServerError)]
                /\ last' = Record(r, ServerError)
  /\ nreq' = nreq + 1
  /\ call' = IF handle # "none" THEN StoreCall("get", "worker") ELSE call
  /\ UNCHANGED <<db, handle, hit_stats, now, probe, decided>>

\* get_cache from the value read to its return or to the await of db.delete.
GetCacheDecide(h) ==
  /\ req[h].pc = "got" /\ req[h].op = "get_cache"
  /\ LET r   == req[h]
         dec == DecodeItem(r.bytes)
         hit == [Resp(200, "") EXCEPT !.key = r.key, !.value = dec.item.value,
                   !.expire = dec.item.expire, !.duration = dec.item.duration]
     IN  IF ~Truthy(r)
         THEN /\ hit_stats' = Bump(hit_stats, "miss", 1)
              /\ req' = [req EXCEPT ![h] = Finished(r, Resp(404, "miss"))]
              /\ last' = Record(r, Resp(404, "miss"))
         ELSE IF ~dec.ok
         THEN /\ hit_stats' = hit_stats
              /\ req' = [req EXCEPT ![h] = Finished(r, ServerError)]
              /\ last' = Record(r, ServerError)
         ELSE IF IsLive(dec.item, now)
         THEN /\ hit_stats' = Bump(hit_stats, "hit", 1)
              /\ req' = [req EXCEPT ![h] = Finished(r, hit)]
              /\ last' = Record(r, hit)
         ELSE /\ hit_stats' = Bump(hit_stats, "expire", 1)
              /\ IF handle # "none"
                 THEN /\ req' = [req EXCEPT ![h] =
                                   [r EXCEPT !.pc = "del", !.item = dec.item]]
                      /\ last' = last
                 ELSE /\ req' = [req EXCEPT ![h] = Finished(r, ServerError)]
                      /\ last' = Record(r, ServerError)
  /\ decided' = IF Truthy(req[h]) /\ ~DecodeItem(req[h].bytes).ok
                 THEN decided ELSE decided + 1
  /\ UNCHANGED <<db, handle, now, nreq, probe, call>>

\* The awaited db.delete of an expired entry, then the 404 (expired).
GetCacheDelete(h) ==
  /\ req[h].pc = "del" /\ req[h].op = "get_cache"
  /\ LET r    == req[h]
         resp == IF handle = "open" THEN Resp(404, "expired") ELSE ServerError
     IN  /\ db' = IF handle = "open" THEN DbDelete(db, r.key) ELSE db
         /\ req' = [req EXCEPT ![h] = Finished(r, resp)]
         /\ last' = Record(r, resp)
  /\ call' = StoreCall("delete", "worker")
  /\ UNCHANGED <<handle, hit_stats, now, nreq, probe, decided>>

\* ------------------------------------------------------------ GET /pickle
\* get_pickle up to the return of its awaited db.get.
GetPickleRead(h) ==
  /\ CanStart(h)
  /\ \E tail \in ClientTails :
       LET key == GetPickleKey(tail)
           got == DbGet(db, key)
           r   == Started("get_pickle", "got", key)
       IN  IF handle = "open"
           THEN /\ req' = [req EXCEPT ![h] =
                             [r EXCEPT !.found = got.found,
                                !.bytes = got.bytes, !.prev = last[key]]]
                /\ last' = last
           ELSE /\ req' = [req EXCEPT ![h] = Finished(r, ServerError)]
                /\ last' = Record(r, ServerError)
  /\ nreq' = nreq + 1
  /\ call' = IF handle # "none" THEN StoreCall("get", "worker") ELSE call
  /\ UNCHANGED <<db, handle, hit_stats, now, probe, decided>>

\* get_pickle from the value read to its return.
GetPickleDecide(h) ==
  /\ req[h].pc = "got" /\ req[h].op = "get_pickle"
  /\ LET r    == req[h]
         resp == IF Truthy(r) THEN [Resp(200, "") EXCEPT !.body = r.bytes]
                 ELSE Resp(404, "miss")
     IN  /\ hit_stats' = Bump(hit_stats, IF Truthy(r) THEN "hit" ELSE "miss", 1)
         /\ req' = [req EXCEPT ![h] = Finished(r, resp)]
         /\ last' = Record(r, resp)
  /\ decided' = decided + 1
  /\ UNCHANGED <<db, handle, now, nreq, probe, call>>

\* ------------------------------------------------------------ DELETE /cache
\* delete_cache up to the return of its awaited db.get.
DeleteCacheCheck(h) ==
  /\ CanStart(h)
  /\ \E tail \in ClientTails :
       LET key == DeleteCacheKey(tail)
           got == DbGet(db, key)
           r   == [Started("delete_cache", "del", key) EXCEPT
                     !.found = got.found]
           resp == IF handle = "open" THEN Resp(404, "cannot find")
                   ELSE ServerError
       IN  IF handle = "open" /\ got.found
           THEN /\ req' = [req EXCEPT ![h] = r]
                /\ last' = last
           ELSE /\ req' = [req EXCEPT ![h] = Finished(r, resp)]
                /\ last' = Record(r, resp)
  /\ nreq' = nreq + 1
  /\ call' = IF handle # "none" THEN StoreCall("get", "worker") ELSE call
  /\ UNCHANGED <<db, handle, hit_stats, now, probe, decided>>

\* The awaited db.delete of delete_cache, the count and the return.
DeleteCacheDelete(h) ==
  /\ req[h].pc = "del" /\ req[h].op = "delete_cache"
  /\ LET r    == req[h]
         resp == IF handle = "open"
                 THEN [Resp(200, "removed") EXCEPT !.key = r.key]
                 ELSE ServerError
     IN  /\ db' = IF handle = "open" THEN DbDelete(db, r.key) ELSE db
         /\ hit_stats' = IF handle = "open" THEN Bump(hit_stats, "delete", 1)
                         ELSE hit_stats
         /\ req' = [req EXCEPT ![h] = Finished(r, resp)]
         /\ last' = Record(r, resp)
  /\ call' = StoreCall("delete", "worker")
  /\ UNCHANGED <<handle, now, nreq, probe, decided>>

\* ------------------------------------------------------------ DELETE /prefix
BATCH_SIZE == 1000

\* The loop of _delete_prefix over the iterator's keys: the keys it hands to
\* wb.delete, up to the first key that does not start with the prefix.
RECURSIVE ScanPrefix(_, _)
ScanPrefix(keys, prefix) ==
  IF keys = <<>> THEN <<>>
  ELSE IF StartsWith(Head(keys), prefix)
  THEN <<Head(keys)>> \o ScanPrefix(Tail(keys), prefix)
  ELSE <<>>

SeqToSet(q) == {q[i] : i \in 1..Len(q)}

\* The keys already written by wb.write() inside the loop: every full batch.
Flushed(batch) == SubSeq(batch, 1, Len(batch) - (Len(batch) % BATCH_SIZE))

\* delete_prefix and _delete_prefix up to the end of the loop: the iterator
\* reads a snapshot of the store; the batch is written when the with ends.
DeletePrefixScan(h) ==
  /\ CanStart(h)
  /\ \E tail \in ClientPrefixes :
       LET prefix == DeletePrefixKey(tail)
           batch  == ScanPrefix(DbIterator(db, prefix), prefix)
           r      == [Started("delete_prefix", "write", prefix) EXCEPT
                       !.batch = batch, !.seen = DOMAIN db]
       IN  IF prefix = <<>>
           THEN /\ req' = [req EXCEPT ![h] =
                             Finished(r, Resp(400, "prefix is empty"))]
                /\ db' = db
                /\ last' = last
                /\ call' = call
           ELSE IF handle # "open"
           THEN /\ req' = [req EXCEPT ![h] = Finished(r, ServerError)]
                /\ db' = db
                /\ last' = last
                /\ call' = IF handle = "none" THEN call
                           ELSE StoreCall("write_batch", "worker")
           ELSE /\ req' = [req EXCEPT ![h] = r]
                /\ call' = StoreCall("iterator", "worker")
                /\ db' = DbDeleteAll(db, SeqToSet(Flushed(batch)))
                /\ last' = [k \in Keys |->
                              IF k \in SeqToSet(Flushed(batch))
                              THEN [op |-> "delete_prefix", resp |-> NoResp,
                                    bytes |-> <<>>]
                              ELSE last[k]]
  /\ nreq' = nreq + 1
  /\ UNCHANGED <<handle, hit_stats, now, probe, decided>>

\* The write of the batch at the end of the with, the count and the return.
DeletePrefixWrite(h) ==
  /\ req[h].pc = "write" /\ req[h].op = "delete_prefix"
  /\ LET r    == req[h]
         n    == Len(r.batch)
         resp == IF handle = "open"
                 THEN [Resp(200, "keys deleted") EXCEPT !.key = r.key,
                         !.count = n]
                 ELSE ServerError
     IN  /\ db' = IF handle = "open" THEN DbDeleteAll(db, SeqToSet(r.batch))
                  ELSE db
         /\ hit_stats' = IF handle = "open" THEN Bump(hit_stats, "delete", n)
                         ELSE hit_stats
         /\ req' = [req EXCEPT ![h] = Finished(r, resp)]
         /\ last' = [k \in Keys |->
                       IF handle = "open" /\ k \in SeqToSet(r.batch)
                       THEN [op |-> "delete_prefix", resp |-> resp,
                             bytes |-> <<>>]
                       ELSE last[k]]
  /\ call' = StoreCall("write_batch", "worker")
  /\ UNCHANGED <<handle, now, nreq, probe, decided>>

\* ------------------------------------------------------------ GET /stat
\* hit_rate * 100 with two decimals, in hundredths of a percent.
HitRate(stats) ==
  LET n == stats.hit + stats.miss
  IN  IF n > 0 THEN (2 * 10000 * stats.hit + n) \div (2 * n) ELSE 0

get_stats(h) ==
  /\ CanStart(h)
  /\ LET stats == [hit |-> hit_stats.hit, miss |-> hit_stats.miss,
                   expire |-> hit_stats.expire, delete |-> hit_stats.delete,
                   hit_rate |-> HitRate(hit_stats)]
     IN  req' = [req EXCEPT ![h] =
                   Finished(Started("stat", "done", <<>>),
                            [Resp(200, "") EXCEPT !.stats = stats])]
  /\ nreq' = nreq + 1
  /\ UNCHANGED <<db, handle, hit_stats, now, last, probe, call, decided>>

\* ------------------------------------------------------------ GET /stat/count
get_count(h) ==
  /\ CanStart(h)
  /\ LET resp == IF handle = "open"
                 THEN [Resp(200, "") EXCEPT !.count = Cardinality(DOMAIN db)]
                 ELSE ServerError
     IN  req' = [req EXCEPT ![h] = Finished(Started("count", "done", <<>>), resp)]
  /\ nreq' = nreq + 1
  /\ call' = IF handle # "none" THEN StoreCall("iterator", "worker") ELSE call
  /\ UNCHANGED <<db, handle, hit_stats, now, last, probe, decided>>

\* ------------------------------------------------------------ GET /close
\* get_close up to the return of its awaited db.close.
CloseDb(h) ==
  /\ CanStart(h)
  /\ IF handle = "none"
     THEN /\ req' = [req EXCEPT ![h] =
                       Finished(Started("close", "done", <<>>), ServerError)]
          /\ handle' = handle
     ELSE /\ req' = [req EXCEPT ![h] = Started("close", "closing", <<>>)]
          /\ handle' = "closed"
  /\ nreq' = nreq + 1
  /\ call' = IF handle # "none" THEN StoreCall("close", "worker") ELSE call
  /\ UNCHANGED <<db, hit_stats, now, last, probe, decided>>

\* app.state.db = None, and the return.
CloseFinish(h) ==
  /\ req[h].pc = "closing" /\ req[h].op = "close"
  /\ handle' = "none"
  /\ req' = [req EXCEPT ![h] = Finished(req[h], Resp(200, "closed"))]
  /\ UNCHANGED <<db, hit_stats, now, nreq, last, probe, call, decided>>

\* ------------------------------------------------------------ GET /clear
\* Faulty variant: the reset also zeroes the counters.
get_clear_zeroing(h) ==
  /\ CanStart(h)
  /\ handle' = IF handle = "none" THEN "none" ELSE "closed"
  /\ hit_stats' = [hit |-> 0, miss |-> 0, expire |-> 0, delete |-> 0]
  /\ req' = [req EXCEPT ![h] =
               Finished(Started("clear", "done", <<>>), ServerError)]
  /\ nreq' = nreq + 1
  /\ call' = IF handle # "none" THEN StoreCall("close", "loop") ELSE call
  /\ UNCHANGED <<db, now, last, probe, decided>>

\* get_clear: it closes the store on the event loop, and the next line raises
\* (a plyvel DB has no path attribute; os.remove of a directory fails too), so
\* the store is neither removed nor opened again.
get_clear(h) ==
  /\ CanStart(h)
  /\ handle' = IF handle = "none" THEN "none" ELSE "closed"
  /\ req' = [req EXCEPT ![h] =
               Finished(Started("clear", "done", <<>>), ServerError)]
  /\ nreq' = nreq + 1
  /\ call' = IF handle # "none" THEN StoreCall("close", "loop") ELSE call
  /\ UNCHANGED <<db, hit_stats, now, last, probe, decided>>

Next ==
  \/ Tick
  \/ \E h \in Handlers : SetCacheStart(h)
  \/ \E h \in Handlers : SetCachePut(h)
  \/ \E h \in Handlers : SetPickle(h)
  \/ \E h \in Handlers : GetCacheRead(h)
  \/ \E h \in Handlers : GetCacheDecide(h)
  \/ \E h \in Handlers : GetCacheDelete(h)
  \/ \E h \in Handlers : GetPickleRead(h)
  \/ \E h \in Handlers : GetPickleDecide(h)
  \/ \E h \in Handlers : DeleteCacheCheck(h)
  \/ \E h \in Handlers : DeleteCacheDelete(h)
  \/ \E h \in Handlers : DeletePrefixScan(h)
  \/ \E h \in Handlers : DeletePrefixWrite(h)
  \/ \E h \in Handlers : get_stats(h)
  \/ \E h \in Handlers : get_count(h)
  \/ \E h \in Handlers : CloseDb(h)
  \/ \E h \in Handlers : CloseFinish(h)
  \/ \E h \in Handlers : get_clear(h)

Spec == Init /\ [][Next]_vars

\* ------------------------------------------------------------ routing alone
\* A request is routed and its key derived, over every tail up to MaxTail.
InitRoute ==
  /\ db = <<>>
  /\ handle = "open"
  /\ hit_stats = [hit |-> 0, miss |-> 0, expire |-> 0, delete |-> 0]
  /\ now = 0
  /\ req = [h \in Handlers |-> Idle]
  /\ nreq = 0
  /\ last = [k \in Keys |-> NoOp]
  /\ probe = NoProbe
  /\ call = StoreCall("open", "loop")
  /\ decided = 0

RouteRequest ==
  /\ \E route \in Routes, tail \in Tails :
       probe' = [route |-> route, tail |-> tail, key |-> RouteKey(route, tail)]
  /\ UNCHANGED <<db, handle, hit_stats, now, req, nreq, last, call, decided>>

RouteSpec == InitRoute /\ [][RouteRequest]_vars

\* ------------------------------------------------------------ sets alone
\* POST /cache requests with every duration literal, and the clock.
SetCacheLiteral(h) ==
  \E tail \in ClientTails, v \in InputValues, e \in InputExpires,
     d \in DurationLiterals : SetCacheRequest(h, tail, v, e, Some(d))

NextSet ==
  \/ Tick
  \/ \E h \in Handlers : SetCacheLiteral(h)
  \/ \E h \in Handlers : SetCachePut(h)

\* The store starts empty here.
SetSpec == InitRoute /\ [][NextSet]_vars

\* ------------------------------------------------------------ claims
DoneOp(h, op) == req[h].pc = "done" /\ req[h].op = op

Expired404 == Resp(404, "expired")

Miss404 == Resp(404, "miss")

\* The get of handler h followed a set on its key that answered 200, with no
\* other operation completing on that key in between, and the store served it.
GetAfterSet(h) ==
  /\ DoneOp(h, "get_cache")
  /\ req[h].prev.op = "set_cache"
  /\ req[h].prev.resp.status = 200
  /\ req[h].resp.status # 500

\* The get of h answered the value and the expire that the set returned.
ReturnsWhatSetReturned(h) ==
  /\ req[h].resp.status = 200
  /\ req[h].resp.value = req[h].prev.resp.value
  /\ req[h].resp.expire = req[h].prev.resp.expire

\* C1 as stated: set(k, v) followed by get(k), with no other operation on k
\* in between, returns an entry whose value is v and whose expire is the one
\* set returned.
C1_SetThenGet == \A h \in Handlers : GetAfterSet(h) => ReturnsWhatSetReturned(h)

\* C1 amended: set(k, v) followed by get(k), with no other operation on k in
\* between, returns the value v and the expire set returned whenever that
\* expire is absent or later than the clock; once the clock has reached the
\* expire, the get may answer NotFound(expired) instead.
C1_SetThenGetWhileLive ==
  \A h \in Handlers :
    GetAfterSet(h) =>
      LET e == req[h].prev.resp.expire
      IN  IF e = None \/ e[1] > now
          THEN ReturnsWhatSetReturned(h)
          ELSE ReturnsWhatSetReturned(h) \/ req[h].resp = Expired404

C1_Witness ==
  \E h \in Handlers :
    /\ GetAfterSet(h)
    /\ req[h].resp.status = 200
    /\ req[h].resp.expire # None
    /\ req[h].resp.duration # None

\* C2: a get on /cache answers a record, or counts a hit, only if the entry
\* it read has no expire or an expire later than the clock at its check.
C2_HitOnlyIfLive ==
  [][\A h \in Handlers :
       (GetCacheDecide(h)
          /\ (req'[h].resp.status = 200 \/ hit_stats'.hit # hit_stats.hit))
       => LET dec == DecodeItem(req[h].bytes)
          IN  /\ req[h].found
              /\ dec.ok
              /\ (dec.item.expire = None \/ dec.item.expire[1] > now)
              /\ req'[h].resp.status = 200
              /\ req'[h].resp.expire = dec.item.expire
              /\ hit_stats' = [hit_stats EXCEPT !.hit = @ + 1]]_vars

C2_Witness ==
  \E h \in Handlers :
    /\ DoneOp(h, "get_cache")
    /\ req[h].resp.status = 200
    /\ req[h].resp.expire = Some(1)
    /\ req[h].prev.op = "none"
    /\ hit_stats.hit = 1

\* The entry handler h read decodes and its expire has been reached.
ObservedExpired(h) ==
  LET dec == DecodeItem(req[h].bytes)
  IN  /\ req[h].found /\ req[h].bytes # <<>>
      /\ dec.ok
      /\ dec.item.expire # None
      /\ dec.item.expire[1] <= now

\* C3: on an open store, a get that observes an entry with expire <= now
\* adds exactly 1 to the expire counter, deletes the key and answers
\* NotFound(expired); the get that follows it on that key, with nothing else
\* completed on the key in between, answers NotFound(miss) and adds exactly 1
\* to the miss counter.
C3_ExpireOnRead ==
  [][\A h \in Handlers :
       /\ (GetCacheDecide(h) /\ ObservedExpired(h) /\ handle = "open")
            => /\ req'[h].pc = "del"
               /\ hit_stats' = [hit_stats EXCEPT !.expire = @ + 1]
               /\ db' = db
       /\ (GetCacheDelete(h) /\ handle = "open")
            => /\ req'[h].resp = Expired404
               /\ req[h].key \notin DOMAIN db'
               /\ hit_stats' = hit_stats
       /\ (GetCacheDecide(h) /\ req[h].prev.op = "get_cache"
             /\ req[h].prev.resp = Expired404)
            => /\ req'[h].resp = Miss404
               /\ hit_stats' = [hit_stats EXCEPT !.miss = @ + 1]]_vars

C3_Witness ==
  \E h \in Handlers :
    /\ DoneOp(h, "get_cache")
    /\ req[h].prev.op = "get_cache"
    /\ req[h].prev.resp = Expired404
    /\ req[h].resp = Miss404
    /\ hit_stats.expire = 1
    /\ hit_stats.miss = 1

\* The get of handler h followed a get on its key that answered
\* NotFound(expired), with no other operation completing on the key between.
GetAfterExpiredGet(h) ==
  /\ DoneOp(h, "get_cache")
  /\ req[h].prev.op = "get_cache"
  /\ req[h].prev.resp = Expired404

\* C4 as stated: of two successive gets on a key whose entry has expired,
\* both answer NotFound(expired), and the key is absent after the first.
C4_BothGetsExpired ==
  /\ \A h \in Handlers : GetAfterExpiredGet(h) => req[h].resp = Expired404
  /\ \A k \in Keys :
       (last[k].op = "get_cache" /\ last[k].resp = Expired404)
         => k \notin DOMAIN db

\* C4 amended: of two successive gets on a key whose entry has expired, the
\* first answers NotFound(expired) and leaves the key absent, and the second
\* answers NotFound(miss).
C4_ExpiredThenMiss ==
  /\ \A h \in Handlers : GetAfterExpiredGet(h) => req[h].resp = Miss404
  /\ \A k \in Keys :
       (last[k].op = "get_cache" /\ last[k].resp = Expired404)
         => k \notin DOMAIN db

C4_Witness ==
  \E h \in Handlers :
    /\ GetAfterExpiredGet(h)
    /\ last[req[h].key].op = "get_cache"
    /\ req[h].key \notin DOMAIN db

\* C5: a get that follows a completed delete of its key, whether the delete
\* found the key (200) or not (404), answers NotFound(miss).
C5_GetAfterDelete ==
  \A h \in Handlers :
    (DoneOp(h, "get_cache") /\ req[h].prev.op = "delete_cache"
       /\ req[h].prev.resp.status \in {200, 404})
      => req[h].resp = Miss404

C5_Witness ==
  \E h \in Handlers :
    /\ DoneOp(h, "get_cache")
    /\ req[h].prev.op = "delete_cache"
    /\ req[h].prev.resp.status = 200
    /\ req[h].resp = Miss404

\* C6: on an open store, a delete of a key that is absent answers 404 and
\* changes neither the store nor the counters; a delete of a key that is
\* present removes it, answers 200 and adds exactly 1 to the delete counter.
C6_DeleteAbsentOrPresent ==
  [][\A h \in Handlers :
       /\ (DeleteCacheCheck(h) /\ handle = "open")
            => /\ db' = db
               /\ hit_stats' = hit_stats
               /\ IF req'[h].key \in DOMAIN db
                  THEN req'[h].pc = "del"
                  ELSE req'[h].pc = "done" /\ req'[h].resp.status = 404
       /\ (DeleteCacheDelete(h) /\ handle = "open")
            => /\ db' = [k \in (DOMAIN db) \ {req[h].key} |-> db[k]]
               /\ req'[h].resp.status = 200
               /\ hit_stats' = [hit_stats EXCEPT !.delete = @ + 1]]_vars

C6_Witness ==
  \E h1, h2 \in Handlers :
    /\ DoneOp(h1, "delete_cache") /\ req[h1].resp.status = 200
    /\ DoneOp(h2, "delete_cache") /\ req[h2].resp.status = 404
    /\ req[h1].key = req[h2].key
    /\ hit_stats.delete = 1

\* C7: on an open store whose set of keys no writer changed since the scan,
\* delete_prefix(p) with p non-empty answers the number of stored keys that
\* start with p, adds that number to the delete counter, leaves no key that
\* starts with p, and leaves every other key with its value.
C7_DeletePrefix ==
  [][\A h \in Handlers :
       (DeletePrefixWrite(h) /\ handle = "open" /\ req[h].seen = DOMAIN db)
       => LET p == req[h].key
              M == {k \in DOMAIN db : StartsWith(k, p)}
          IN  /\ p # <<>>
              /\ req'[h].resp.status = 200
              /\ req'[h].resp.count = Cardinality(M)
              /\ hit_stats' = [hit_stats EXCEPT !.delete = @ + Cardinality(M)]
              /\ DOMAIN db' = (DOMAIN db) \ M
              /\ \A k \in DOMAIN db' : db'[k] = db[k]]_vars

C7_Witness ==
  \E h \in Handlers :
    /\ DoneOp(h, "delete_prefix")
    /\ req[h].key = <<"a", "/">>
    /\ req[h].resp.count = 1
    /\ DOMAIN db = {<<"a">>, <<"a", "b">>}
    /\ hit_stats.delete = 1

\* C8 as stated: set_opaque(k, B) followed by get_opaque(k), with nothing
\* else completed on k in between, answers exactly B and counts a hit, for
\* every byte string B, the empty one included.
C8_OpaqueRoundTrip ==
  [][\A h \in Handlers :
       (GetPickleDecide(h) /\ req[h].prev.op = "set_pickle"
          /\ req[h].prev.resp.status = 200)
       => /\ req'[h].resp.status = 200
          /\ req'[h].resp.body = req[h].prev.bytes
          /\ hit_stats' = [hit_stats EXCEPT !.hit = @ + 1]]_vars

\* Steps that may remove or replace the entry of key k: a put or a delete on
\* k, a prefix delete, a reset.
WritesKey(k) ==
  \E h \in Handlers :
    \/ SetCachePut(h) /\ req[h].key = k
    \/ SetPickle(h) /\ req'[h].key = k
    \/ DeleteCacheDelete(h) /\ req[h].key = k
    \/ DeletePrefixScan(h)
    \/ DeletePrefixWrite(h)
    \/ get_clear(h)

\* C9 as stated: an entry written with set_opaque stays in the store, with
\* the bytes written, through every step that is no delete of its key, no
\* matching prefix delete, no overwrite and no reset: no read removes it.
C9_OpaqueImmortal ==
  [][\A k \in Keys :
       (last[k].op = "set_pickle" /\ last[k].resp.status = 200
          /\ ~WritesKey(k))
       => (k \in DOMAIN db' /\ db'[k] = last[k].bytes)]_vars

Slashes(n) == [i \in 1..n |-> "/"]

\* C10: on the /cache and /pickle routes the key is the captured tail less
\* all its leading and all its trailing '/': it neither starts nor ends with
\* '/', what was dropped from the tail is '/' at its two ends only (an
\* embedded '/' stays), a tail with more '/' around it yields the same key on
\* every one of these routes, and the key of a key is itself.
C10_KeyNormalization ==
  probe.route \in KeyRoutes =>
    LET k == probe.key
        t == probe.tail
    IN  /\ k # <<>> => (k[1] # "/" /\ k[Len(k)] # "/")
        /\ \E i, j \in 0..Len(t) : t = Slashes(i) \o k \o Slashes(j)
        /\ \A r \in KeyRoutes : \A i, j \in 0..2 :
             RouteKey(r, Slashes(i) \o t \o Slashes(j)) = k
        /\ \A r \in KeyRoutes : RouteKey(r, k) = k

C10_Witness ==
  /\ probe.route = "DELETE /cache"
  /\ probe.tail = <<"/", "a", "/", "a">>
  /\ probe.key = <<"a", "/", "a">>

CounterNames == {"hit", "miss", "expire", "delete"}

\* C11: through every step of every handler, close and clear included, each
\* of the counters hit, miss, expire and delete is a non-negative integer and
\* never decreases.
C11_StatsMonotonic ==
  /\ [](\A c \in CounterNames : hit_stats[c] \in Nat)
  /\ [][\A c \in CounterNames : hit_stats'[c] >= hit_stats[c]]_vars

C11_Witness ==
  \E h1, h2 \in Handlers :
    /\ DoneOp(h1, "clear")
    /\ DoneOp(h2, "get_cache") /\ req[h2].resp.status = 200
    /\ hit_stats.hit = 1

\* C12 as stated: /clear resets the four counters: after it they are all 0.
C12_ClearResetsCounters ==
  [][\A h \in Handlers :
       get_clear(h) => \A c \in CounterNames : hit_stats'[c] = 0]_vars

\* C12 amended: /clear leaves the four counters as they were; /stat after a
\* /clear reports the values from before it.
C12_ClearKeepsCounters ==
  [][\A h \in Handlers : get_clear(h) => hit_stats' = hit_stats]_vars

C12_Witness ==
  \E h1, h2 \in Handlers :
    /\ DoneOp(h1, "clear")
    /\ DoneOp(h2, "get_pickle") /\ req[h2].resp.status = 404
    /\ hit_stats.miss = 1

\* C13 as stated: /clear on an open store, whatever it holds, answers 200 and
\* leaves the store open and empty behind the handle the handlers use.
C13_ClearReopens ==
  [][\A h \in Handlers :
       (get_clear(h) /\ handle = "open")
       => /\ req'[h].resp.status = 200
          /\ handle' = "open"
          /\ DOMAIN db' = {}]_vars

\* Handler h starts a data request in this step: a set, get, delete,
\* set_opaque, get_opaque, delete_prefix or count.
StartsDataRequest(h) ==
  \/ SetCacheStart(h)
  \/ SetPickle(h)
  \/ GetCacheRead(h)
  \/ GetPickleRead(h)
  \/ DeleteCacheCheck(h)
  \/ DeletePrefixScan(h)
  \/ get_count(h)

C15_BadDurationIs400 ==
  [][\A h \in Handlers :
       (nreq' = nreq + 1 /\ req'[h].op = "set_cache" /\ handle = "open")
       => \A d \in BadDurations, tail \in ClientTails, v \in InputValues,
             e \in InputExpires :
            SetCacheRequest(h, tail, v, e, Some(d))
            => /\ ~DurationMatches(d)
               /\ req'[h].resp.status = 400
               /\ db' = db
               /\ hit_stats' = hit_stats]_vars

\* The multiplier the claim gives each unit.
Multiplier(u) ==
  CASE u = "s" -> 1 [] u = "m" -> 60 [] u = "h" -> 3600 [] u = "d" -> 86400

\* C16: for every duration literal N followed by a unit u of s, m, h, d, and
\* whatever expire the caller supplied with it, the set resolves
\* expire = now + N * multiplier(u) at the clock read inside the request; it
\* stores that expire and returns it, and when it returns the clock has not
\* gone back, so that now_before + N*unit <= expire <= now_after + N*unit.
C16_DurationBounds ==
  [][\A h \in Handlers :
       /\ (nreq' = nreq + 1 /\ req'[h] # req[h] /\ handle = "open")
          => /\ req'[h].op = "set_cache"
             /\ req'[h].pc = "put"
             /\ \E n \in DurationCounts, u \in Units :
                  /\ req'[h].item.duration = Some(FormatInt(n) \o <<u>>)
                  /\ req'[h].item.expire = Some(now + n * Multiplier(u))
                  /\ DecodeItem(req'[h].bytes).item.expire
                       = Some(now + n * Multiplier(u))
       /\ (SetCachePut(h) /\ handle = "open")
          => \E n \in DurationCounts, u \in Units :
               /\ req[h].item.duration = Some(FormatInt(n) \o <<u>>)
               /\ req'[h].resp.status = 200
               /\ req'[h].resp.expire = req[h].item.expire
               /\ req[h].item.expire[1] <= now' + n * Multiplier(u)
               /\ DecodeItem(db'[req[h].key]).item.expire
                    = req[h].item.expire]_vars

C16_Witness ==
  \E h \in Handlers :
    /\ DoneOp(h, "set_cache")
    /\ req[h].resp.status = 200
    /\ req[h].resp.expire = Some(3601)
    /\ now = 2
    /\ req[h].key \in DOMAIN db
    /\ DecodeItem(db[req[h].key]).item.duration = Some(<<"1", "h">>)

\* C17 as stated: every get, put, delete, iterate, batch delete and close a
\* handler makes on the store, /clear included, runs on a worker thread and
\* never on the event loop's thread.
C17_StoreCallsOffLoop ==
  call.fn \in {"get", "put", "delete", "iterator", "write_batch", "close"}
    => call.thread = "worker"

\* C18 as stated: DELETE /prefix/<tail> strips all leading and all trailing
\* '/' from the tail before it touches the store: on an open store whose keys
\* no writer changed since the scan, it removes exactly the keys that start
\* with the stripped tail, so tails that differ only in '/' at their ends
\* remove the same keys.
C18_PrefixNormalized ==
  [][\A h \in Handlers :
       (DeletePrefixWrite(h) /\ handle = "open" /\ req[h].seen = DOMAIN db)
       => DOMAIN db' =
            {k \in DOMAIN db : ~StartsWith(k, NormalizeKey(req[h].key))}]_vars

\* The store holds under key k an entry that is live at the clock.
HoldsLive(k) ==
  /\ k \in DOMAIN db
  /\ LET dec == DecodeItem(db[k])
     IN  dec.ok /\ (dec.item.expire = None \/ dec.item.expire[1] > now)

\* C19 as stated: the delete that expire-on-read issues in get(k) never
\* removes a live entry that a concurrent set stored under k between the
\* get's read and its delete.
C19_ExpireDeleteSparesLive ==
  [][\A h \in Handlers :
       (req[h].pc = "del" /\ req[h].op = "get_cache" /\ HoldsLive(req[h].key)
          /\ GetCacheDelete(h))
       => /\ req[h].key \in DOMAIN db'
          /\ db'[req[h].key] = db[req[h].key]]_vars

\* Handler h takes its hit/miss/expired decision in this step.
Decides(h) ==
  /\ req[h].pc = "got"
  /\ req[h].op \in {"get_cache", "get_pickle"}
  /\ req'[h].pc # "got"

Delta(c) == hit_stats'[c] - hit_stats[c]

\* C20: under every interleaving, hit + miss + expire equals the number of
\* GETs on /cache and /pickle that have reached their hit/miss/expired
\* decision; a GET that answers 200 added exactly 1 to hit and nothing else,
\* a GET that answers 404 added exactly 1 to exactly one of miss and expire
\* (the expired one when it decided, before its delete), and no other step
\* changes hit, miss or expire.
C20_CounterAccounting ==
  /\ [](hit_stats.hit + hit_stats.miss + hit_stats.expire = decided)
  /\ [][\A h \in Handlers :
          /\ (Decides(h) /\ req'[h].resp.status = 200)
             => Delta("hit") = 1 /\ Delta("miss") = 0 /\ Delta("expire") = 0
          /\ (Decides(h) /\ req'[h].resp.status = 404)
             => Delta("hit") = 0 /\ Delta("miss") = 1 /\ Delta("expire") = 0
          /\ (Decides(h) /\ req'[h].pc = "del")
             => Delta("hit") = 0 /\ Delta("miss") = 0 /\ Delta("expire") = 1
          /\ (req[h].pc = "del" /\ req[h].op = "get_cache"
                /\ req'[h].pc = "done")
             => /\ req'[h].resp \in {Expired404, ServerError}
                /\ hit_stats' = hit_stats]_vars
  /\ [][(\E c \in {"hit", "miss", "expire"} : Delta(c) # 0)
          => \E h \in Handlers : Decides(h)]_vars

C20_Witness ==
  \E h1, h2 \in Handlers :
    /\ req[h1].pc = "del" /\ req[h1].op = "get_cache"
    /\ DoneOp(h2, "get_pickle") /\ req[h2].resp.status = 404
    /\ decided = 2
    /\ hit_stats.expire = 1
    /\ hit_stats.miss = 1

\* The store is the same before and after the step on every key but k.
SameExcept(k) ==
  /\ (DOMAIN db') \ {k} = (DOMAIN db) \ {k}
  /\ \A x \in (DOMAIN db) \ {k} : db'[x] = db[x]

\* Handler h starts a request of kind op in this step: the count of requests
\* goes up and h's slot comes to hold a new request of that kind, or no slot
\* changes at all and the step is that of the handler given as A (the same
\* request, answered the same, in a slot that held it already).
Starts(h, op, A) ==
  /\ nreq' = nreq + 1
  /\ req'[h].op = op
  /\ req'[h] # req[h] \/ (req' = req /\ A)

\* C21: a set and a set_opaque change nothing in the store but the value
\* under their normalised key (on an open store that value becomes the bytes
\* they put) and leave the four counters as they were; get_opaque, stats
\* and count leave the store as it was; stats and count leave the counters
\* as they were.
C21_FrameConditions ==
  [][\A h \in Handlers :
       /\ Starts(h, "set_cache", SetCacheStart(h))
          => db' = db /\ hit_stats' = hit_stats
       /\ (req[h].pc = "put" /\ SetCachePut(h))
          => /\ SameExcept(req[h].key)
             /\ handle = "open" => db'[req[h].key] = req[h].bytes
             /\ hit_stats' = hit_stats
       /\ Starts(h, "set_pickle", SetPickle(h))
          => /\ SameExcept(req'[h].key)
             /\ req'[h].key \in {NormalizeKey(t) : t \in ClientTails}
             /\ handle = "open" => req'[h].key \in DOMAIN db'
             /\ hit_stats' = hit_stats
       /\ Starts(h, "get_pickle", GetPickleRead(h))
          => db' = db
       /\ (req[h].pc = "got" /\ GetPickleDecide(h))
          => db' = db
       /\ Starts(h, "stat", get_stats(h))
          => db' = db /\ hit_stats' = hit_stats
       /\ Starts(h, "count", get_count(h))
          => db' = db /\ hit_stats' = hit_stats]_vars

C21_Witness ==
  \E h1, h2 \in Handlers :
    /\ DoneOp(h1, "set_pickle") /\ req[h1].resp.status = 200
    /\ req[h1].key = <<"a", "b">>
    /\ DoneOp(h2, "get_cache") /\ req[h2].resp.status = 200
    /\ req[h2].key = <<"a", "/", "a">>
    /\ hit_stats.hit = 1
    /\ DOMAIN db = Keys
    /\ db[<<"a">>] = SeedEntry(<<"a">>)
    /\ db[<<"a", "b">>] # SeedEntry(<<"a", "b">>)

====
